---- MODULE Spec2Model ----
(***************************************************************************)
(* Model of mal_helper.py: the history parser (_get_entry_history), the    *)
(* date inference (_determine_dates) and the review loop (date_fixer).     *)
(*                                                                         *)
(* Python strings that the code slices, compares or upper-cases (dates,    *)
(* counts, history lines, console input) are sequences of one-character    *)
(* strings, ordered by the table Ascii, so that slicing, split(" "),       *)
(* str.upper() and the lexicographic comparison of line 231 are computed   *)
(* as Python computes them.  Strings that are only tested for equality     *)
(* (status, title) are TLA+ strings.                                       *)
(*                                                                         *)
(* Not modelled: list_type (it selects a URL and the wording of a print),  *)
(* the HTTP response of update_entry (only printed), wait_time's value.    *)
(***************************************************************************)
EXTENDS Integers, Sequences, FiniteSets, TLC

(***************************************************************************)
(* Bounds of the model.                                                    *)
(***************************************************************************)
\* longest user list fetched from the List Provider
MaxEntries == 2
\* most invalid decision inputs typed at one prompt
MaxRetries == 1
\* longest history given to _determine_dates in SpecInfer
MaxHist == 4
\* most calls that ask a user for a list (get_anime_list, get_manga_list,
\* date_fixer) on one helper
MaxCalls == 2

(***************************************************************************)
(* Python strings.                                                         *)
(***************************************************************************)
\* the characters the model uses, in code-point order
Ascii ==
  << " ", ",", "-", "/",
     "0", "1", "2", "3", "4", "5", "6", "7", "8", "9", ":",
     "A", "B", "C", "D", "E", "F", "G", "H", "I", "J", "K", "L", "M",
     "N", "O", "P", "Q", "R", "S", "T", "U", "V", "W", "X", "Y", "Z",
     "a", "b", "c", "d", "e", "f", "g", "h", "i", "j", "k", "l", "m",
     "n", "o", "p", "q", "r", "s", "t", "u", "v", "w", "x", "y", "z" >>

\* ord(c), up to the order-preserving renumbering of the table
OrdTable ==
  [c \in { Ascii[i] : i \in 1..Len(Ascii) } |->
     CHOOSE i \in 1..Len(Ascii) : Ascii[i] = c]

Ord(c) == OrdTable[c]

Digits == <<"0", "1", "2", "3", "4", "5", "6", "7", "8", "9">>

IsDigit(c) == \E i \in 1..Len(Digits) : Digits[i] = c

DigitVal(c) == (CHOOSE i \in 1..Len(Digits) : Digits[i] = c) - 1

IsLower(c) == Ord(c) >= Ord("a") /\ Ord(c) <= Ord("z")

\* str.upper(), one character
UpperChar(c) == IF IsLower(c) THEN Ascii[Ord(c) - Ord("a") + Ord("A")] ELSE c

\* str.upper()
Upper(s) == [i \in 1..Len(s) |-> UpperChar(s[i])]

\* Python's s[a:b] for 0 <= a, 0 <= b (indices clamped to the length)
Slice(s, a, b) ==
  LET hi == IF b < Len(s) THEN b ELSE Len(s)
  IN  IF a + 1 > hi THEN << >> ELSE SubSeq(s, a + 1, hi)

\* Python's s[a:]
SliceFrom(s, a) == Slice(s, a, Len(s))

\* Python's s[:-1]
DropLast(s) == IF Len(s) <= 1 THEN << >> ELSE SubSeq(s, 1, Len(s) - 1)

\* Python's a > b on strings: code-point lexicographic order
StrGreater(a, b) ==
  \/ \E k \in 1..Len(a) :
        /\ k <= Len(b)
        /\ \A j \in 1..(k - 1) : a[j] = b[j]
        /\ Ord(a[k]) > Ord(b[k])
  \/ /\ Len(a) > Len(b)
     /\ \A j \in 1..Len(b) : a[j] = b[j]

\* Python's line.split(" "): the tokens of s from position i on, the token
\* that is being read having started at position from
RECURSIVE SplitFrom(_, _, _)
SplitFrom(s, from, i) ==
  IF i > Len(s) THEN << SubSeq(s, from, Len(s)) >>
  ELSE IF s[i] = " "
  THEN << SubSeq(s, from, i - 1) >> \o SplitFrom(s, i + 1, i + 1)
  ELSE SplitFrom(s, from, i + 1)

Split(s) == SplitFrom(s, 1, 1)

\* int(s) succeeds: the inputs of the model carry no sign, blank or underscore
IsInt(s) == Len(s) > 0 /\ \A i \in 1..Len(s) : IsDigit(s[i])

\* int(s)
RECURSIVE ToInt(_)
ToInt(s) ==
  IF Len(s) = 0 THEN 0
  ELSE 10 * ToInt(SubSeq(s, 1, Len(s) - 1)) + DigitVal(s[Len(s)])

Reverse(s) == [i \in 1..Len(s) |-> s[Len(s) + 1 - i]]

(***************************************************************************)
(* History Normalizer: MALHelper._get_entry_history, lines 90-103.         *)
(* A raw history is the sequence of the texts of the "spaceit_pad" divs,   *)
(* in the order of the page (newest first).                                *)
(***************************************************************************)
\* mutant: line 99 with the two slices exchanged (day before month)
CleanRecordDayFirst(line) ==
  LET parts == Split(line)
      wdate == parts[5]
      wtime == parts[7]
      wcount == DropLast(parts[2])
      converted_wdate ==
        SliceFrom(wdate, 6) \o <<"-">> \o Slice(wdate, 3, 5)
          \o <<"-">> \o Slice(wdate, 0, 2)
  IN  << wcount, converted_wdate, wtime >>

\* one record: lines 92-101.  parts[4] and parts[6] raise IndexError when
\* the line has fewer than 7 space-separated tokens.
CleanRecord(line) ==
  LET parts == Split(line)
      wdate == parts[5]
      wtime == parts[7]
      wcount == DropLast(parts[2])
      converted_wdate ==
        SliceFrom(wdate, 6) \o <<"-">> \o Slice(wdate, 0, 2)
          \o <<"-">> \o Slice(wdate, 3, 5)
  IN  << wcount, converted_wdate, wtime >>

RecordParses(line) == Len(Split(line)) >= 7

\* the loop of lines 90-103: the cleaned history, or the exception raised
CleanHistory(raw) ==
  IF \A i \in 1..Len(raw) : RecordParses(raw[i])
  THEN [exc |-> "none", value |-> [i \in 1..Len(raw) |-> CleanRecord(raw[i])]]
  ELSE [exc |-> "IndexError", value |-> << >>]

(***************************************************************************)
(* Date Inference Engine: MALHelper._determine_dates, lines 105-142.       *)
(* A cleaned record is <<wcount, wdate, wtime>> (Python's h[0], h[1],       *)
(* h[2]).                                                                  *)
(***************************************************************************)
\* min(history, key=lambda x: int(x[0])): the first record of least count
MinRecord(h) ==
  h[CHOOSE i \in 1..Len(h) :
      /\ \A j \in 1..Len(h) : ToInt(h[i][1]) <= ToInt(h[j][1])
      /\ \A j \in 1..(i - 1) : ToInt(h[j][1]) > ToInt(h[i][1])]

\* max(history, key=lambda x: int(x[0])): the first record of greatest count
MaxRecord(h) ==
  h[CHOOSE i \in 1..Len(h) :
      /\ \A j \in 1..Len(h) : ToInt(h[i][1]) >= ToInt(h[j][1])
      /\ \A j \in 1..(i - 1) : ToInt(h[j][1]) < ToInt(h[i][1])]

\* mutant: the loop of lines 114-119 without its break
StartIndexLast(h) ==
  CHOOSE i \in 1..Len(h) :
    /\ h[i][1] = MinRecord(h)[1]
    /\ \A j \in (i + 1)..Len(h) : h[j][1] # MinRecord(h)[1]

\* the first position of the reversed history whose count is earliest_ep
\* (lines 114-119); positions are 1-based here, 0-based in the code
StartIndex(h) ==
  CHOOSE i \in 1..Len(h) :
    /\ h[i][1] = MinRecord(h)[1]
    /\ \A j \in 1..(i - 1) : h[j][1] # MinRecord(h)[1]

\* mutant: line 128 skips the start position too (j <= start_date_index)
FinishCandidatesStrict(h) ==
  { j \in 1..Len(h) : j > StartIndex(h) /\ h[j][1] = MaxRecord(h)[1] }

\* the positions the finish loop of lines 127-136 can stop at
FinishCandidates(h) ==
  { j \in 1..Len(h) : j >= StartIndex(h) /\ h[j][1] = MaxRecord(h)[1] }

\* mutant: the last record of the history is taken for the finish
FinishIndexLast(h) == Len(h)

FinishIndex(h) ==
  CHOOSE j \in FinishCandidates(h) : \A k \in FinishCandidates(h) : j <= k

\* _determine_dates(history): the pair returned at line 142, or the
\* exception raised: ValueError from min() of an empty list or from int() at
\* lines 110-111, UnboundLocalError at line 139 when the finish loop assigned
\* nothing.
DetermineDates(hist) ==
  LET h == Reverse(hist)
  IN  IF Len(h) = 0 \/ \E i \in 1..Len(h) : ~IsInt(h[i][1])
      THEN [exc |-> "ValueError", start_date |-> << >>, finish_date |-> << >>]
      ELSE IF FinishCandidates(h) = {}
      THEN [exc |-> "UnboundLocalError",
            start_date |-> << >>, finish_date |-> << >>]
      ELSE [exc |-> "none",
            start_date |-> h[StartIndex(h)][2],
            finish_date |-> h[FinishIndex(h)][2]]

(***************************************************************************)
(* The data the collaborators can supply.                                  *)
(***************************************************************************)
\* entry["list_status"] has no such key
Absent == << "<absent>" >>

\* the default of list_status.get(..., "UNKNOWN"), lines 209-210
UNKNOWN == << "U", "N", "K", "N", "O", "W", "N" >>

\* start_from = None
NoStartFrom == "<None>"

\* a local variable of date_fixer that no assignment has bound yet
Unbound == << "<unbound>" >>

\* the date 2021-01-0d as the List Provider writes it (YYYY-MM-DD)
IsoDate(d) == << "2", "0", "2", "1", "-", "0", "1", "-", "0", Digits[d + 1] >>

\* the date 2021-01-0d as the history page writes it
PageDate(d) == << "0", "1", "/", "0", Digits[d + 1], "/", "2", "0", "2", "1" >>

\* the text of one history div: "Ep <count>, watched on <date> at 10:00"
PageLine(count, d) ==
  << "E", "p", " " >> \o count \o << ",", " " >>
    \o << "w", "a", "t", "c", "h", "e", "d", " ", "o", "n", " " >>
    \o PageDate(d) \o << " ", "a", "t", " ", "1", "0", ":", "0", "0" >>

Statuses == { "completed", "watching" }

Titles == { "Akira", "Berserk" }

StartFroms == { NoStartFrom, "Berserk" }

\* the dates an entry can carry: the histories of the model lie between
StartDates == { Absent, IsoDate(6) }

FinishDates == { Absent, IsoDate(2), IsoDate(8) }

\* one element of user_list["data"]; the id is the entry's place in the list
EntryAt(i, t, st, sd, fd) ==
  [id |-> i, title |-> t, status |-> st, start_date |-> sd, finish_date |-> fd]

EntryShapes == Titles \X Statuses \X StartDates \X FinishDates

\* the lists the List Provider can return
UserLists ==
  UNION { { [i \in 1..n |-> EntryAt(i, f[i][1], f[i][2], f[i][3], f[i][4])] :
              f \in [1..n -> EntryShapes] } : n \in 0..MaxEntries }

\* the history pages the History Provider can return, newest record first
PageEmpty == << >>

PageScenarioA == << PageLine(<<"3">>, 5), PageLine(<<"2">>, 4), PageLine(<<"1">>, 3) >>

PageSingle == << PageLine(<<"7">>, 4) >>

\* the greatest count was recorded before the least one (a re-watch)
PageRewatch == << PageLine(<<"2">>, 5), PageLine(<<"1">>, 4), PageLine(<<"3">>, 3) >>

\* a div whose text has fewer than 7 tokens
PageMalformed == << PageLine(<<"2">>, 4), << "E", "p", " ", "1" >> >>

Pages == { PageEmpty, PageScenarioA, PageSingle, PageRewatch, PageMalformed }

\* no history request has been made
NoPage == [ok |-> FALSE, divs |-> << << "<none>" >> >>]

\* what requests.get + raise_for_status of lines 79-80 can give
ProviderResponses ==
  { [ok |-> TRUE, divs |-> p] : p \in Pages } \cup { [ok |-> FALSE, divs |-> << >>] }

\* _get_entry_history on each response: lines 79-80, then lines 90-103
Cleaned ==
  [resp \in ProviderResponses |->
     IF resp.ok THEN CleanHistory(resp.divs)
     ELSE [exc |-> "HTTPError", value |-> << >>]]

\* what the Decision Source can type at the prompt of line 282
UserInputs ==
  { << "Y" >>, << "S" >>, << "f" >>, << "X" >>, << "n", "o" >> }

ValidChoices == { << "Y" >>, << "S" >>, << "F" >>, << "X" >> }

(***************************************************************************)
(* The review session: MALHelper.date_fixer, lines 159-322.                *)
(***************************************************************************)
VARIABLES
  pc,                   \* where date_fixer stands: "start", "loop" (line 204),
                        \* "ack" (input of line 233 or 271), "prompt" (input
                        \* of line 282), "done" (returned), "raised"
  error,                \* the exception that ended the call, or "none"
  user_list,            \* user_list["data"]
  auto_skip,            \* argument auto_skip
  start_from,           \* argument start_from
  start_from_triggered, \* local, lines 199-201 and 218
  index,                \* place in the list of the entry of the iteration (from 1)
  page,                 \* what the latest history request returned
  history,              \* local, line 250
  skip_flag,            \* local, lines 261-268
  start_date,           \* local, line 277
  finish_date,          \* local, line 277
  events,               \* console and network events of the current iteration
  submitted,            \* the requests update_entry has sent, in order
  announced,            \* places of the entries announced at line 221
  fetched,              \* places of the entries whose history was requested
  prompted,             \* places of the entries a decision was asked for
  flagged,              \* places of the entries flagged at line 232 or 270
  exit_at,              \* place of the entry at which 'X' was typed, or 0
  user_lists,           \* MALHelper.user_lists: user name -> the user's
                        \* my_anime_list and my_manga_list attributes
  list_requests,        \* the requests _get_list has sent, in order
  list_calls            \* number of calls that asked a user for a list

vars ==
  << pc, error, user_list, auto_skip, start_from, start_from_triggered, index,
     page, history, skip_flag, start_date, finish_date, events, submitted,
     announced, fetched, prompted, flagged, exit_at, user_lists, list_requests,
     list_calls >>

\* the variables of one date_fixer call
session_vars ==
  << pc, error, user_list, auto_skip, start_from, start_from_triggered, index,
     page, history, skip_flag, start_date, finish_date, events, submitted,
     announced, fetched, prompted, flagged, exit_at >>

\* the helper's users and what was asked of the List Provider
cache_vars == << user_lists, list_requests, list_calls >>

(***************************************************************************)
(* The cached lists: MALUser, lines 23-59, and MALHelper.add_user, lines   *)
(* 144-148.                                                                *)
(***************************************************************************)
ListTypes == { "anime", "manga" }

Users == { "@me", "guest" }

\* an attribute my_anime_list / my_manga_list that was never assigned
NoList == [has |-> FALSE, data |-> << >>]

\* lines 24-26: a new user has neither attribute
NewUser == [anime |-> NoList, manga |-> NoList]

\* what the List Provider answers: a list, or a status that line 41 raises on
ListResponses ==
  { [ok |-> TRUE, data |-> l] : l \in UserLists } \cup { [ok |-> FALSE, data |-> << >>] }

\* lines 146-148: the users after add_user(u)
AddUser(users, u) ==
  IF u \in DOMAIN users THEN users ELSE users @@ (u :> NewUser)

\* mutant: the cached list is never looked at
NeedsRequestAlways(user, ltype, overwrite) == TRUE

\* lines 51 and 57: the list is requested
NeedsRequest(user, ltype, overwrite) == ~user[ltype].has \/ overwrite

\* lines 28-47 called from line 52 or 58 for user u: the request logged, and
\* the attribute assigned when the response is good
UsersAfterGet(users, u, ltype, overwrite, resp) ==
  IF NeedsRequest(users[u], ltype, overwrite) /\ resp.ok
  THEN [users EXCEPT ![u][ltype] = [has |-> TRUE, data |-> resp.data]]
  ELSE users

RequestsAfterGet(users, u, ltype, overwrite, resp) ==
  IF NeedsRequest(users[u], ltype, overwrite)
  THEN Append(list_requests,
              [user |-> u, ltype |-> ltype, overwrite |-> overwrite, ok |-> resp.ok])
  ELSE list_requests

Ev(kind) == [kind |-> kind, arg |-> << >>]

EvInput(text) == [kind |-> "input", arg |-> text]

\* entry["list_status"].get(key, "UNKNOWN"), lines 209-210
GetDate(field) == IF field = Absent THEN UNKNOWN ELSE field

\* mutant: the comparison of line 231 turned round
DateOrderViolationSwapped(e) ==
  /\ GetDate(e.start_date) # UNKNOWN
  /\ GetDate(e.finish_date) # UNKNOWN
  /\ StrGreater(GetDate(e.finish_date), GetDate(e.start_date))

\* the sanity check of lines 230-231
DateOrderViolation(e) ==
  /\ GetDate(e.start_date) # UNKNOWN
  /\ GetDate(e.finish_date) # UNKNOWN
  /\ StrGreater(GetDate(e.start_date), GetDate(e.finish_date))

\* mutant: the elif of lines 244-247 left out
AutoSkipReasonStatusOnly(skip, e) ==
  IF ~skip THEN "none"
  ELSE IF e.status # "completed" THEN "status"
  ELSE "none"

\* lines 239-247: why auto_skip skips the entry, or "none"
AutoSkipReason(skip, e) ==
  IF ~skip THEN "none"
  ELSE IF e.status # "completed" THEN "status"
  ELSE IF GetDate(e.start_date) # UNKNOWN /\ GetDate(e.finish_date) # UNKNOWN
  THEN "dated"
  ELSE "none"

\* mutant: the empty history is tested before the status and the dates
ProposalEmptyFirst(e, hist) ==
  IF Len(hist) = 0 THEN "no_history"
  ELSE IF e.status # "completed" THEN "skip_status"
  ELSE IF GetDate(e.start_date) # UNKNOWN /\ GetDate(e.finish_date) # UNKNOWN
  THEN "skip_dated"
  ELSE "infer"

\* lines 261-278: what is proposed for the entry once its history is known
Proposal(e, hist) ==
  IF e.status # "completed" THEN "skip_status"
  ELSE IF GetDate(e.start_date) # UNKNOWN /\ GetDate(e.finish_date) # UNKNOWN
  THEN "skip_dated"
  ELSE IF Len(hist) = 0 THEN "no_history"
  ELSE "infer"

\* line 289
IsValidChoice(text) == Upper(text) \in ValidChoices

\* mutant: the branches of 'S' and 'F' exchanged
ChoiceBranchSwapSF(text, skip) ==
  IF Upper(text) = << "Y" >>
  THEN (IF skip THEN "skip_proposed" ELSE "update_both")
  ELSE IF Upper(text) = << "S" >> THEN "update_finish"
  ELSE IF Upper(text) = << "F" >> THEN "skip_user"
  ELSE "exit"

\* mutant: 'X' leaves the entry (continue) instead of the loop (break)
ChoiceBranchExitContinues(text, skip) ==
  IF Upper(text) = << "Y" >>
  THEN (IF skip THEN "skip_proposed" ELSE "update_both")
  ELSE IF Upper(text) = << "F" >> THEN "update_finish"
  ELSE "skip_user"

\* the branch of lines 294-315 a valid choice takes
ChoiceBranch(text, skip) ==
  IF Upper(text) = << "Y" >>
  THEN (IF skip THEN "skip_proposed" ELSE "update_both")
  ELSE IF Upper(text) = << "F" >> THEN "update_finish"
  ELSE IF Upper(text) = << "S" >> THEN "skip_user"
  ELSE "exit"

\* mutant: 'F' sends the start date as well
UpdatesOfBoth(branch, sd, fd) ==
  ("start_date" :> sd) @@ ("finish_date" :> fd)

\* the dict built at lines 300-303 or 305-307
UpdatesOf(branch, sd, fd) ==
  IF branch = "update_both"
  THEN ("start_date" :> sd) @@ ("finish_date" :> fd)
  ELSE ("finish_date" :> fd)

\* update_entry, lines 150-157: one PUT for the entry with the dict as data
update_entry(entry_id, updates) ==
  Append(submitted, [entry_id |-> entry_id, updates |-> updates])

Entry == user_list[index]

InLoop == pc = "loop" /\ index <= Len(user_list)

\* mutant: line 218 left out, the flag is never set
PastResumeNoLatch == start_from = NoStartFrom \/ Entry.title = start_from

\* lines 213-218: the iteration is past the resume point
PastResume == start_from_triggered \/ Entry.title = start_from

Init ==
  /\ pc = "start"
  /\ error = "none"
  /\ user_list = << >>
  /\ auto_skip = FALSE
  /\ start_from = NoStartFrom
  /\ start_from_triggered = FALSE
  /\ index = 0
  /\ page = NoPage
  /\ history = Unbound
  /\ skip_flag = FALSE
  /\ start_date = Unbound
  /\ finish_date = Unbound
  /\ events = << >>
  /\ submitted = << >>
  /\ announced = {}
  /\ fetched = {}
  /\ prompted = {}
  /\ flagged = {}
  /\ exit_at = 0
  /\ user_lists = << >>
  /\ list_requests = << >>
  /\ list_calls = 0

\* lines 185-201: the call, the user "@me", the user's list (requested from
\* the List Provider when it is not cached), the resume flag
Begin(ltype, resp, skip, from) ==
  /\ pc = "start"
  /\ list_calls < MaxCalls
  /\ list_calls' = list_calls + 1
  /\ auto_skip' = skip
  /\ start_from' = from
  /\ LET users == AddUser(user_lists, "@me")
         raises == NeedsRequest(users["@me"], ltype, FALSE) /\ ~resp.ok
     IN  /\ user_lists' = UsersAfterGet(users, "@me", ltype, FALSE, resp)
         /\ list_requests' = RequestsAfterGet(users, "@me", ltype, FALSE, resp)
         /\ IF raises
            THEN /\ pc' = "raised"
                 /\ error' = "HTTPError"
                 /\ UNCHANGED << user_list, start_from_triggered, index >>
            ELSE /\ pc' = "loop"
                 /\ user_list' = user_lists'["@me"][ltype].data
                 /\ start_from_triggered' = (from = NoStartFrom)
                 /\ index' = 1
                 /\ UNCHANGED error
  /\ UNCHANGED << page, history, skip_flag, start_date, finish_date,
                  events, submitted, announced, fetched, prompted, flagged,
                  exit_at >>

\* lines 213-216: an entry before the resume point
ResumeSkip ==
  /\ InLoop
  /\ ~PastResume
  /\ events' = << Ev("skipped") >>
  /\ index' = index + 1
  /\ UNCHANGED << pc, error, user_list, auto_skip, start_from,
                  start_from_triggered, page, history, skip_flag, start_date,
                  finish_date, submitted, announced, fetched, prompted,
                  flagged, exit_at >>
  /\ UNCHANGED cache_vars

\* mutant: the input of line 233 left out, the loop goes on at once
FlagDateOrderNoWait ==
  /\ InLoop
  /\ PastResume
  /\ DateOrderViolation(Entry)
  /\ start_from_triggered' = TRUE
  /\ announced' = announced \cup { index }
  /\ flagged' = flagged \cup { index }
  /\ events' = << Ev("announce"), Ev("flag_order") >>
  /\ index' = index + 1
  /\ UNCHANGED << pc, error, user_list, auto_skip, start_from, page,
                  history, skip_flag, start_date, finish_date, submitted,
                  fetched, prompted, exit_at >>
  /\ UNCHANGED cache_vars

\* lines 221-233: the entry is announced, its dates are out of order
FlagDateOrder ==
  /\ InLoop
  /\ PastResume
  /\ DateOrderViolation(Entry)
  /\ start_from_triggered' = TRUE
  /\ announced' = announced \cup { index }
  /\ flagged' = flagged \cup { index }
  /\ events' = << Ev("announce"), Ev("flag_order"), Ev("ack_wait") >>
  /\ pc' = "ack"
  /\ UNCHANGED << error, user_list, auto_skip, start_from, index, page,
                  history, skip_flag, start_date, finish_date, submitted,
                  fetched, prompted, exit_at >>
  /\ UNCHANGED cache_vars

\* lines 221-247: the entry is announced and auto_skip passes over it
AutoSkip ==
  /\ InLoop
  /\ PastResume
  /\ ~DateOrderViolation(Entry)
  /\ AutoSkipReason(auto_skip, Entry) # "none"
  /\ start_from_triggered' = TRUE
  /\ announced' = announced \cup { index }
  /\ events' = << Ev("announce"),
                  Ev(IF AutoSkipReason(auto_skip, Entry) = "status"
                     THEN "autoskip_status" ELSE "autoskip_dated") >>
  /\ index' = index + 1
  /\ UNCHANGED << pc, error, user_list, auto_skip, start_from, page, history,
                  skip_flag, start_date, finish_date, submitted, fetched,
                  prompted, flagged, exit_at >>
  /\ UNCHANGED cache_vars

\* lines 221-278: the entry is announced, its history is requested and
\* cleaned, the pause of line 258 is taken and the proposal is made
FetchAndPropose(resp) ==
  /\ InLoop
  /\ PastResume
  /\ ~DateOrderViolation(Entry)
  /\ AutoSkipReason(auto_skip, Entry) = "none"
  /\ start_from_triggered' = TRUE
  /\ announced' = announced \cup { index }
  /\ fetched' = fetched \cup { index }
  /\ page' = resp
  /\ LET cleaned == Cleaned[resp]
         prop == Proposal(Entry, cleaned.value)
         dates == DetermineDates(cleaned.value)
         head == << Ev("announce"), Ev("fetch") >>
     IN  IF cleaned.exc # "none"
         THEN /\ pc' = "raised"
              /\ error' = cleaned.exc
              /\ events' = head
              /\ UNCHANGED << history, skip_flag, start_date, finish_date,
                              prompted, flagged, index >>
         ELSE /\ history' = cleaned.value
              /\ CASE prop = "skip_status" ->
                        /\ skip_flag' = TRUE
                        /\ events' = head \o << Ev("sleep"),
                                      Ev("propose_skip_status"), Ev("prompt") >>
                        /\ pc' = "prompt"
                        /\ prompted' = prompted \cup { index }
                        /\ UNCHANGED << error, start_date, finish_date,
                                        flagged, index >>
                   [] prop = "skip_dated" ->
                        /\ skip_flag' = TRUE
                        /\ events' = head \o << Ev("sleep"),
                                      Ev("propose_skip_dated"), Ev("prompt") >>
                        /\ pc' = "prompt"
                        /\ prompted' = prompted \cup { index }
                        /\ UNCHANGED << error, start_date, finish_date,
                                        flagged, index >>
                   [] prop = "no_history" ->
                        /\ skip_flag' = FALSE
                        /\ events' = head \o << Ev("sleep"),
                                      Ev("flag_no_history"), Ev("ack_wait") >>
                        /\ pc' = "ack"
                        /\ flagged' = flagged \cup { index }
                        /\ UNCHANGED << error, start_date, finish_date,
                                        prompted, index >>
                   [] prop = "infer" /\ dates.exc = "none" ->
                        /\ skip_flag' = FALSE
                        /\ start_date' = dates.start_date
                        /\ finish_date' = dates.finish_date
                        /\ events' = head \o << Ev("sleep"),
                                      Ev("propose_dates"), Ev("prompt") >>
                        /\ pc' = "prompt"
                        /\ prompted' = prompted \cup { index }
                        /\ UNCHANGED << error, flagged, index >>
                   [] OTHER ->
                        /\ skip_flag' = FALSE
                        /\ pc' = "raised"
                        /\ error' = dates.exc
                        /\ events' = head \o << Ev("sleep") >>
                        /\ UNCHANGED << start_date, finish_date, prompted,
                                        flagged, index >>
  /\ UNCHANGED << user_list, auto_skip, start_from, submitted, exit_at >>
  /\ UNCHANGED cache_vars

\* lines 233-235 and 271-273: any input acknowledges the flag
Acknowledge ==
  /\ pc = "ack"
  /\ events' = Append(events, Ev("ack"))
  /\ index' = index + 1
  /\ pc' = "loop"
  /\ UNCHANGED << error, user_list, auto_skip, start_from,
                  start_from_triggered, page, history, skip_flag, start_date,
                  finish_date, submitted, announced, fetched, prompted,
                  flagged, exit_at >>
  /\ UNCHANGED cache_vars

BadInputs == Cardinality({ k \in 1..Len(events) : events[k].kind = "bad_input" })

\* lines 282-320: one input at the prompt and what follows from it
Decide(text) ==
  /\ pc = "prompt"
  /\ IF ~IsValidChoice(text)
     THEN /\ BadInputs < MaxRetries
          /\ events' = events \o << EvInput(text), Ev("bad_input"), Ev("prompt") >>
          /\ UNCHANGED << pc, error, index, submitted >>
     ELSE LET branch == ChoiceBranch(text, skip_flag)
              updates == UpdatesOf(branch, start_date, finish_date)
          IN  CASE branch \in { "skip_proposed", "skip_user" } ->
                     /\ events' = events \o << EvInput(text), Ev(branch) >>
                     /\ index' = index + 1
                     /\ pc' = "loop"
                     /\ UNCHANGED << error, submitted >>
                [] branch = "exit" ->
                     /\ events' = events \o
                          << EvInput(text), Ev("exit"), Ev("all_done") >>
                     /\ pc' = "done"
                     /\ UNCHANGED << error, submitted, index >>
                [] branch = "update_finish" /\ finish_date = Unbound ->
                     /\ events' = Append(events, EvInput(text))
                     /\ pc' = "raised"
                     /\ error' = "UnboundLocalError"
                     /\ UNCHANGED << submitted, index >>
                [] OTHER ->
                     /\ submitted' = update_entry(Entry.id, updates)
                     /\ events' = events \o << EvInput(text), Ev("update") >>
                     /\ index' = index + 1
                     /\ pc' = "loop"
                     /\ UNCHANGED error
  /\ exit_at' = IF Upper(text) = << "X" >> THEN index ELSE exit_at
  /\ UNCHANGED << user_list, auto_skip, start_from, start_from_triggered,
                  page, history, skip_flag, start_date, finish_date, announced,
                  fetched, prompted, flagged >>
  /\ UNCHANGED cache_vars

\* line 322, the list is exhausted
AllDone ==
  /\ pc = "loop"
  /\ index > Len(user_list)
  /\ events' = << Ev("all_done") >>
  /\ pc' = "done"
  /\ UNCHANGED << error, user_list, auto_skip, start_from,
                  start_from_triggered, index, page, history, skip_flag,
                  start_date, finish_date, submitted, announced, fetched,
                  prompted, flagged, exit_at >>
  /\ UNCHANGED cache_vars

Next ==
  \/ /\ pc = "start"
     /\ \E resp \in ListResponses, skip \in BOOLEAN, from \in StartFroms :
          Begin("anime", resp, skip, from)
  \/ ResumeSkip
  \/ FlagDateOrder
  \/ AutoSkip
  \/ \E resp \in ProviderResponses : FetchAndPropose(resp)
  \/ Acknowledge
  \/ \E text \in UserInputs : Decide(text)
  \/ AllDone

Spec == Init /\ [][Next]_vars

(***************************************************************************)
(* _determine_dates on its own: every history of at most MaxHist records   *)
(* over three counts.  The record at place k of the chronological order    *)
(* carries the date 2021-01-0k, so a date names its record.                *)
(***************************************************************************)
Counts == { << "1" >>, << "2" >>, << "3" >> }

\* the cleaned history, newest first, whose counts are cs
HistoryOf(cs) ==
  [i \in 1..Len(cs) |->
     << cs[i], IsoDate(Len(cs) + 1 - i), << "1", "0", ":", "0", "0" >> >>]

InferHistories ==
  UNION { { HistoryOf(cs) : cs \in [1..n -> Counts] } : n \in 1..MaxHist }

InitInfer ==
  /\ pc = "infer_call"
  /\ history \in InferHistories
  /\ error = "none"
  /\ user_list = << >>
  /\ auto_skip = FALSE
  /\ start_from = NoStartFrom
  /\ start_from_triggered = FALSE
  /\ index = 0
  /\ page = NoPage
  /\ skip_flag = FALSE
  /\ start_date = Unbound
  /\ finish_date = Unbound
  /\ events = << >>
  /\ submitted = << >>
  /\ announced = {}
  /\ fetched = {}
  /\ prompted = {}
  /\ flagged = {}
  /\ exit_at = 0
  /\ user_lists = << >>
  /\ list_requests = << >>
  /\ list_calls = 0

\* one call of _determine_dates(history), as at line 277
determine_dates ==
  /\ pc = "infer_call"
  /\ LET dates == DetermineDates(history)
     IN  IF dates.exc = "none"
         THEN /\ start_date' = dates.start_date
              /\ finish_date' = dates.finish_date
              /\ pc' = "infer_returned"
              /\ UNCHANGED error
         ELSE /\ error' = dates.exc
              /\ pc' = "infer_raised"
              /\ UNCHANGED << start_date, finish_date >>
  /\ UNCHANGED << user_list, auto_skip, start_from, start_from_triggered,
                  index, page, history, skip_flag, events, submitted,
                  announced, fetched, prompted, flagged, exit_at >>
  /\ UNCHANGED cache_vars

NextInfer == determine_dates

SpecInfer == InitInfer /\ [][NextInfer]_vars

(***************************************************************************)
(* One helper used for several calls: add_user, get_anime_list and         *)
(* get_manga_list of a user, and date_fixer for either list type, one      *)
(* after the other (nothing is called while date_fixer runs).  The List    *)
(* Provider answers with one of two lists, or with a bad status.           *)
(***************************************************************************)
CacheLists ==
  { << EntryAt(1, "Akira", "completed", Absent, Absent) >>,
    << EntryAt(1, "Akira", "watching", IsoDate(6), IsoDate(2)),
       EntryAt(2, "Berserk", "watching", Absent, Absent) >> }

CacheResponses ==
  { [ok |-> TRUE, data |-> l] : l \in CacheLists } \cup { [ok |-> FALSE, data |-> << >>] }

\* lines 144-148
add_user(u) ==
  /\ pc = "start"
  /\ user_lists' = AddUser(user_lists, u)
  /\ UNCHANGED << list_requests, list_calls >>
  /\ UNCHANGED session_vars

\* lines 49-53 for the user u of the helper; an exception of the request
\* goes to the caller, the helper stays as it is
get_anime_list(u, overwrite, resp) ==
  /\ pc = "start"
  /\ u \in DOMAIN user_lists
  /\ list_calls < MaxCalls
  /\ list_calls' = list_calls + 1
  /\ user_lists' = UsersAfterGet(user_lists, u, "anime", overwrite, resp)
  /\ list_requests' = RequestsAfterGet(user_lists, u, "anime", overwrite, resp)
  /\ UNCHANGED session_vars

\* lines 55-59, likewise
get_manga_list(u, overwrite, resp) ==
  /\ pc = "start"
  /\ u \in DOMAIN user_lists
  /\ list_calls < MaxCalls
  /\ list_calls' = list_calls + 1
  /\ user_lists' = UsersAfterGet(user_lists, u, "manga", overwrite, resp)
  /\ list_requests' = RequestsAfterGet(user_lists, u, "manga", overwrite, resp)
  /\ UNCHANGED session_vars

\* date_fixer has returned or raised: its locals are gone, the helper and
\* its users stay
Return ==
  /\ pc \in { "done", "raised" }
  /\ pc' = "start"
  /\ error' = "none"
  /\ user_list' = << >>
  /\ auto_skip' = FALSE
  /\ start_from' = NoStartFrom
  /\ start_from_triggered' = FALSE
  /\ index' = 0
  /\ page' = NoPage
  /\ history' = Unbound
  /\ skip_flag' = FALSE
  /\ start_date' = Unbound
  /\ finish_date' = Unbound
  /\ events' = << >>
  /\ submitted' = << >>
  /\ announced' = {}
  /\ fetched' = {}
  /\ prompted' = {}
  /\ flagged' = {}
  /\ exit_at' = 0
  /\ UNCHANGED cache_vars

NextCache ==
  \/ \E u \in Users : add_user(u)
  \/ \E u \in Users, overwrite \in BOOLEAN, resp \in CacheResponses :
       get_anime_list(u, overwrite, resp)
  \/ \E u \in Users, overwrite \in BOOLEAN, resp \in CacheResponses :
       get_manga_list(u, overwrite, resp)
  \/ \E ltype \in ListTypes, resp \in CacheResponses, skip \in BOOLEAN,
        from \in StartFroms :
       Begin(ltype, resp, skip, from)
  \/ ResumeSkip
  \/ FlagDateOrder
  \/ AutoSkip
  \/ \E resp \in ProviderResponses : FetchAndPropose(resp)
  \/ Acknowledge
  \/ \E text \in UserInputs : Decide(text)
  \/ AllDone
  \/ Return

SpecCache == Init /\ [][NextCache]_vars

(***************************************************************************)
(* The History Normalizer alone: the loop of lines 90-103 applied to a     *)
(* page of two records.  The page writes the date of each record in one    *)
(* of two layouts: month/day/year with a 4-digit year ("11/03/2021"), or   *)
(* day-month-year with a 2-digit year ("03-11-21").                        *)
(***************************************************************************)
\* n as two decimal digits
Pad2(n) == << Digits[((n \div 10) % 10) + 1], Digits[(n % 10) + 1] >>

\* n as four decimal digits
Pad4(n) == Pad2(n \div 100) \o Pad2(n % 100)

\* calendar dates <<year, month, day>> whose day and month numbers overlap
CalendarDates ==
  { << y, m, d >> : y \in { 2020, 2021 }, m \in { 1, 2, 11 }, d \in { 3, 12 } }

DateLayouts == { "mdy4", "dmy2" }

\* the date as the page writes it
SourceDate(layout, date) ==
  IF layout = "mdy4"
  THEN Pad2(date[2]) \o << "/" >> \o Pad2(date[3]) \o << "/" >> \o Pad4(date[1])
  ELSE Pad2(date[3]) \o << "-" >> \o Pad2(date[2]) \o << "-" >> \o Pad2(date[1] % 100)

\* the text of one history div with that date
SourceLine(count, text) ==
  << "E", "p", " " >> \o count \o << ",", " " >>
    \o << "w", "a", "t", "c", "h", "e", "d", " ", "o", "n", " " >>
    \o text \o << " ", "a", "t", " ", "1", "0", ":", "0", "0" >>

InitClean ==
  /\ pc = "clean_call"
  /\ \E layout \in DateLayouts, d1 \in CalendarDates, d2 \in CalendarDates :
       page = [ok |-> TRUE,
               divs |-> << SourceLine(<< "2" >>, SourceDate(layout, d1)),
                           SourceLine(<< "1" >>, SourceDate(layout, d2)) >>]
  /\ history = << >>
  /\ error = "none"
  /\ user_list = << >>
  /\ auto_skip = FALSE
  /\ start_from = NoStartFrom
  /\ start_from_triggered = FALSE
  /\ index = 0
  /\ skip_flag = FALSE
  /\ start_date = Unbound
  /\ finish_date = Unbound
  /\ events = << >>
  /\ submitted = << >>
  /\ announced = {}
  /\ fetched = {}
  /\ prompted = {}
  /\ flagged = {}
  /\ exit_at = 0
  /\ user_lists = << >>
  /\ list_requests = << >>
  /\ list_calls = 0

\* lines 87-103 on the page received
get_entry_history ==
  /\ pc = "clean_call"
  /\ LET cleaned == CleanHistory(page.divs)
     IN  IF cleaned.exc = "none"
         THEN /\ history' = cleaned.value
              /\ pc' = "clean_returned"
              /\ UNCHANGED error
         ELSE /\ error' = cleaned.exc
              /\ pc' = "clean_raised"
              /\ UNCHANGED history
  /\ UNCHANGED << user_list, auto_skip, start_from, start_from_triggered,
                  index, page, skip_flag, start_date, finish_date, events,
                  submitted, announced, fetched, prompted, flagged, exit_at >>
  /\ UNCHANGED cache_vars

NextClean == get_entry_history

SpecClean == InitClean /\ [][NextClean]_vars

(***************************************************************************)
(* Vocabulary of the properties, stated apart from the operators above.    *)
(***************************************************************************)
Last(seq) == seq[Len(seq)]

BothDated(e) == e.start_date # Absent /\ e.finish_date # Absent

OrderError(e) == BothDated(e) /\ StrGreater(e.start_date, e.finish_date)

ProposalKinds == { "propose_skip_status", "propose_skip_dated", "propose_dates" }

\* the iteration of the entry at index requested its history and got a page
FetchedPage == index \in fetched /\ page.ok

TokenCount(line) == 1 + Cardinality({ i \in 1..Len(line) : line[i] = " " })

\* the history in chronological order and the counts of its records
Chrono == Reverse(history)

CountAt(k) == ToInt(Chrono[k][1])

Places == 1..Len(Chrono)

HasUniqueMinMax ==
  /\ \E a \in Places : \A k \in Places \ { a } : CountAt(k) > CountAt(a)
  /\ \E b \in Places : \A k \in Places \ { b } : CountAt(k) < CountAt(b)
  /\ Len(Chrono) > 1

MinPlace == CHOOSE a \in Places : \A k \in Places : CountAt(k) >= CountAt(a)

MaxPlace == CHOOSE b \in Places : \A k \in Places : CountAt(k) <= CountAt(b)

\* no record of the greatest count stands at or after the first record of
\* the least count
NoMaxFromStart ==
  \E a \in Places :
    /\ \A k \in Places : CountAt(k) >= CountAt(a)
    /\ \A k \in 1..(a - 1) : CountAt(k) > CountAt(a)
    /\ \A j \in a..Len(Chrono) : \E k \in Places : CountAt(k) > CountAt(j)

InferReturned == pc \in { "infer_returned", "infer_raised" }

(***************************************************************************)
(* The claims.                                                             *)
(***************************************************************************)
\* C1 (as stated): no update request is ever submitted for an entry whose
\* start_date and finish_date are both populated, nor for an entry whose
\* status is not 'completed' while auto_skip is enabled.
C1_NeverUpdatesSettled ==
  \A k \in 1..Len(submitted) :
    LET e == user_list[submitted[k].entry_id]
    IN  /\ ~BothDated(e)
        /\ ~(auto_skip /\ e.status # "completed")

\* C2 (as stated): for every history with a unique least count m and a unique
\* greatest count M, _determine_dates returns the date of the record of count
\* m as start and the date of the first record of count M after it as finish.
C2_UniqueMinMaxReturns ==
  (InferReturned /\ HasUniqueMinMax) =>
    /\ pc = "infer_returned"
    /\ MaxPlace > MinPlace
    /\ start_date = Chrono[MinPlace][2]
    /\ finish_date = Chrono[MaxPlace][2]

\* C2 (amended): for every history with a unique least count m and a unique
\* greatest count M whose record of count M comes after the record of count
\* m, _determine_dates returns the date of the record of count m as start
\* and the date of the record of count M as finish.
C2_UniqueMinMaxInOrder ==
  (InferReturned /\ HasUniqueMinMax /\ MaxPlace > MinPlace) =>
    /\ pc = "infer_returned"
    /\ start_date = Chrono[MinPlace][2]
    /\ finish_date = Chrono[MaxPlace][2]

C2_Witness ==
  /\ pc = "infer_returned"
  /\ HasUniqueMinMax
  /\ MinPlace > 1
  /\ MaxPlace > MinPlace + 1

\* C3 (as stated): when no record of the greatest count stands at or after
\* the start position, the session does not fail with an error: the entry is
\* left waiting for the decision-maker.
C3_IndeterminateSurfaced ==
  ( /\ FetchedPage
    /\ CleanHistory(page.divs).exc = "none"
    /\ history = CleanHistory(page.divs).value
    /\ Len(history) > 0
    /\ Entry.status = "completed"
    /\ ~BothDated(Entry)
    /\ NoMaxFromStart ) =>
      /\ error = "none"
      /\ index \in prompted \cup flagged

\* C4: an entry the session announces whose dates are out of order is flagged
\* as a date-order error whatever its status and whatever auto_skip, and its
\* history is never requested.
C4_DateOrderAlwaysFlagged ==
  \A i \in announced :
    OrderError(user_list[i]) =>
      /\ i \in flagged
      /\ i \notin fetched
      /\ i \notin prompted
      /\ (i = index => /\ Len(events) >= 3
                       /\ events[1].kind = "announce"
                       /\ events[2].kind = "flag_order"
                       /\ \A k \in 1..Len(events) : events[k].kind # "fetch")

C4_Witness ==
  \E i \in flagged :
    /\ OrderError(user_list[i])
    /\ user_list[i].status # "completed"
    /\ auto_skip

\* C5: a request is submitted only at the prompt of an entry whose proposal
\* was shown in this iteration, on the input Y or F, and for that entry; an
\* invalid input leaves the session at the prompt of the same entry with
\* nothing submitted.
C5_UpdateOnlyOnDecision ==
  [][ /\ (submitted' # submitted =>
            /\ pc = "prompt"
            /\ \E k \in 1..Len(events) : events[k].kind \in ProposalKinds
            /\ Last(events).kind = "prompt"
            /\ Len(events') = Len(events) + 2
            /\ events'[Len(events) + 1].kind = "input"
            /\ Upper(events'[Len(events) + 1].arg) \in { << "Y" >>, << "F" >> }
            /\ Last(events').kind = "update"
            /\ Len(submitted') = Len(submitted) + 1
            /\ SubSeq(submitted', 1, Len(submitted)) = submitted
            /\ Last(submitted').entry_id = user_list[index].id)
      /\ ( ( /\ pc = "prompt"
             /\ Len(events') > Len(events)
             /\ Upper(events'[Len(events) + 1].arg) \notin ValidChoices ) =>
            /\ pc' = "prompt"
            /\ index' = index
            /\ submitted' = submitted
            /\ Last(events').kind = "prompt" )
    ]_vars

C5_Witness ==
  /\ Len(events) > 0
  /\ Last(events).kind = "update"
  /\ \E k \in 1..Len(events) : events[k].kind = "bad_input"

\* C6: a submitted update carries start_date and finish_date when the
\* decision was Y, finish_date alone when it was F, and never another field.
C6_UpdateFields ==
  /\ \A k \in 1..Len(submitted) :
       \/ DOMAIN submitted[k].updates = { "start_date", "finish_date" }
       \/ DOMAIN submitted[k].updates = { "finish_date" }
  /\ (Len(events) > 1 /\ Last(events).kind = "update") =>
       LET choice == Upper(events[Len(events) - 1].arg)
           sent == DOMAIN Last(submitted).updates
       IN  /\ choice = << "Y" >> => sent = { "start_date", "finish_date" }
           /\ choice = << "F" >> => sent = { "finish_date" }

C6_Witness ==
  /\ Len(events) > 1
  /\ Last(events).kind = "update"
  /\ Upper(events[Len(events) - 1].arg) = << "F" >>
  /\ user_list[Last(submitted).entry_id].start_date # Absent
  /\ \E k \in 1..Len(events) : events[k].kind = "propose_dates"

\* C7 (as stated): every date submitted for an entry was computed from the
\* history of that entry in the iteration that submits it.
C7_DatesFromOwnHistory ==
  (Len(events) > 0 /\ Last(events).kind = "update") =>
    /\ \E k \in 1..Len(events) : events[k].kind = "propose_dates"
    /\ DetermineDates(history).exc = "none"
    /\ Last(submitted).updates["finish_date"] = DetermineDates(history).finish_date
    /\ ("start_date" \in DOMAIN Last(submitted).updates =>
          Last(submitted).updates["start_date"] = DetermineDates(history).start_date)

\* C8 (as stated): an empty history always yields the 'No history available'
\* flag, for every entry whose history is fetched.
C8_EmptyAlwaysFlagged ==
  (FetchedPage /\ page.divs = << >>) => index \in flagged

\* C8 (amended): an empty history yields the 'No history available' flag,
\* and no exception, for every fetched entry that is completed and lacks a
\* date; for a fetched entry that is not completed or has both dates the
\* skip proposal is made instead and the entry is not flagged.
C8_EmptyFlaggedWhenInferable ==
  (FetchedPage /\ page.divs = << >>) =>
    IF Entry.status = "completed" /\ ~BothDated(Entry)
    THEN index \in flagged /\ index \notin prompted
    ELSE index \in prompted /\ index \notin flagged /\ skip_flag

C8_Witness ==
  /\ FetchedPage
  /\ page.divs = << >>
  /\ index \in flagged
  /\ pc = "ack"

\* C9 (as stated): a history record that does not match the token layout
\* does not crash the session: the entry is handled as one without history.
C9_MalformedMeansNoHistory ==
  ( /\ FetchedPage
    /\ \E i \in 1..Len(page.divs) : TokenCount(page.divs[i]) < 7 ) =>
      /\ error = "none"
      /\ (Entry.status = "completed" /\ ~BothDated(Entry) => index \in flagged)

\* C10: once X is typed for an entry the session is over: nothing is
\* submitted for that entry and no later entry is announced, fetched,
\* prompted for or updated.
C10_AbortHaltsSession ==
  exit_at # 0 =>
    /\ pc = "done"
    /\ index = exit_at
    /\ Last(events).kind = "all_done"
    /\ \A i \in announced \cup fetched \cup prompted \cup flagged : i <= exit_at
    /\ \A k \in 1..Len(submitted) : submitted[k].entry_id < exit_at

C10_Witness ==
  /\ exit_at = 1
  /\ Len(user_list) > 1
  /\ pc = "done"

\* C11: an entry that was flagged (date order, no history) holds the session
\* at the acknowledgment input: the loop leaves it only by the acknowledgment,
\* and no request is ever submitted for a flagged entry.
C11_FlagBlocksUntilAck ==
  [][ /\ (index' \in flagged' => pc' = "ack" /\ Last(events').kind = "ack_wait")
      /\ ( (index' # index /\ index \in flagged') =>
             /\ pc = "ack"
             /\ index' = index + 1
             /\ Last(events').kind = "ack" )
      /\ \A k \in 1..Len(submitted') : submitted'[k].entry_id \notin flagged'
    ]_vars

C11_Witness ==
  /\ pc = "loop"
  /\ index = 2
  /\ 1 \in flagged
  /\ 1 \in fetched
  /\ Last(events).kind = "ack"

Skippable(e) == ~OrderError(e) /\ (e.status # "completed" \/ BothDated(e))

UpdatedPlaces == { submitted[k].entry_id : k \in 1..Len(submitted) }

Matches == { i \in 1..Len(user_list) : user_list[i].title = start_from }

AfterMatch(i) == \E m \in Matches : m <= i

\* C13: with a resume point, no entry before the first entry of that title
\* is announced, checked, fetched, prompted for or updated; every entry from
\* that one on whose iteration has begun is announced; with no such title
\* the session ends without having processed any entry.
C13_ResumePoint ==
  (pc # "start" /\ start_from # NoStartFrom) =>
    /\ \A i \in announced \cup fetched \cup prompted \cup flagged \cup UpdatedPlaces :
         AfterMatch(i)
    /\ \A i \in 1..(index - 1) : AfterMatch(i) => i \in announced
    /\ \A i \in 1..(index - 1) : ~AfterMatch(i) => i \notin announced
    /\ (index <= Len(user_list) /\ pc # "loop" /\ AfterMatch(index)) =>
         index \in announced
    /\ (pc = "loop" /\ index > 1 /\ ~AfterMatch(index - 1)) =>
         events = << Ev("skipped") >>
    /\ (pc = "done" /\ Matches = {}) =>
         /\ announced = {}
         /\ submitted = << >>
         /\ index = Len(user_list) + 1

C13_Witness ==
  /\ start_from # NoStartFrom
  /\ Len(user_list) = 2
  /\ user_list[1].title # start_from
  /\ user_list[2].title = start_from
  /\ 2 \in prompted
  /\ 1 \notin announced

\* the first place, in chronological order, of a record of count c
FirstPlaceOf(c) ==
  CHOOSE a \in Places : CountAt(a) = c /\ \A k \in 1..(a - 1) : CountAt(k) # c

\* the first place at or after place a of a record of count c
FirstPlaceFrom(a, c) ==
  CHOOSE b \in a..Len(Chrono) :
    CountAt(b) = c /\ \A k \in a..(b - 1) : CountAt(k) # c

\* C14 (as stated): among the records of one count the chronologically
\* earliest is taken, for the start and for the finish alike.
C14_EarliestForBoth ==
  pc = "infer_returned" =>
    /\ start_date = Chrono[FirstPlaceOf(CountAt(MinPlace))][2]
    /\ finish_date = Chrono[FirstPlaceOf(CountAt(MaxPlace))][2]

\* C14 (amended): the start is the chronologically earliest record of the
\* least count; the finish is the earliest record of the greatest count among
\* those at or after the start record, not among all of them.
C14_EarliestFromStart ==
  pc = "infer_returned" =>
    /\ start_date = Chrono[FirstPlaceOf(CountAt(MinPlace))][2]
    /\ finish_date =
         Chrono[FirstPlaceFrom(FirstPlaceOf(CountAt(MinPlace)), CountAt(MaxPlace))][2]

C14_Witness ==
  /\ pc = "infer_returned"
  /\ Len(Chrono) = 4
  /\ CountAt(1) = CountAt(2)
  /\ CountAt(3) = CountAt(4)
  /\ CountAt(1) < CountAt(3)

\* C16 (as stated): between the start of one announced entry and the start of
\* the next the pause of wait_time is taken.
C16_DelayEveryEntry ==
  (pc = "loop" /\ Len(events) > 0 /\ events[1].kind = "announce") =>
    \E k \in 1..Len(events) : events[k].kind = "sleep"

AllSameCount == \A k \in Places : CountAt(k) = CountAt(1)

PlaceOfDate(d) == CHOOSE k \in Places : Chrono[k][2] = d

\* C18: a history whose records all have one count (a single record too)
\* gives the date of its first record for the start and for the finish; and
\* whenever a pair is returned the finish record is not before the start
\* record.
C18_FinishNotBeforeStart ==
  InferReturned =>
    /\ AllSameCount =>
         /\ pc = "infer_returned"
         /\ start_date = Chrono[1][2]
         /\ finish_date = Chrono[1][2]
    /\ pc = "infer_returned" =>
         PlaceOfDate(finish_date) >= PlaceOfDate(start_date)

C18_Witness ==
  /\ pc = "infer_returned"
  /\ Len(Chrono) = 1
  /\ start_date = finish_date

\* the dates of the entry after the request: the fields sent replace the
\* entry's, the others stay
ResultStart(req) ==
  IF "start_date" \in DOMAIN req.updates THEN req.updates["start_date"]
  ELSE user_list[req.entry_id].start_date

ResultFinish(req) == req.updates["finish_date"]

\* C19 (as stated): an entry without date-order error before the session has
\* none after any request the session submits for it: its resulting start
\* date is not after its resulting finish date.
C19_NoOrderErrorCreated ==
  \A k \in 1..Len(submitted) :
    (~OrderError(user_list[submitted[k].entry_id])
       /\ ResultStart(submitted[k]) # Absent) =>
      ~StrGreater(ResultStart(submitted[k]), ResultFinish(submitted[k]))

\* C20 (as stated): no entry state and no valid decision on its proposal
\* (F on a skip proposal included) ends the session with an unhandled error.
C20_NoUnhandledError ==
  ~(pc = "raised" /\ Len(events) > 0 /\ Last(events).kind = "input")

\* the date text of record k of the page
SourceText(k) == Split(page.divs[k])[5]

\* the calendar date <<year, month, day>> a text of either layout denotes
DateOfText(layout, t) ==
  IF layout = "mdy4"
  THEN << ToInt(SliceFrom(t, 6)), ToInt(Slice(t, 0, 2)), ToInt(Slice(t, 3, 5)) >>
  ELSE << 2000 + ToInt(SliceFrom(t, 6)), ToInt(Slice(t, 3, 5)), ToInt(Slice(t, 0, 2)) >>

InLayout(layout, t) == Len(t) = (IF layout = "mdy4" THEN 10 ELSE 8)

Iso(date) == Pad4(date[1]) \o << "-" >> \o Pad2(date[2]) \o << "-" >> \o Pad2(date[3])

DayNumber(date) == date[1] * 10000 + date[2] * 100 + date[3]

\* the records of a page in that layout come out as ISO dates whose string
\* order is the order of the calendar dates
NormalizesLayout(layout) ==
  (pc = "clean_returned" /\ \A k \in 1..Len(page.divs) : InLayout(layout, SourceText(k))) =>
    /\ \A k \in 1..Len(history) :
         history[k][2] = Iso(DateOfText(layout, SourceText(k)))
    /\ \A j \in 1..Len(history), k \in 1..Len(history) :
         StrGreater(history[j][2], history[k][2]) <=>
           DayNumber(DateOfText(layout, SourceText(j)))
             > DayNumber(DateOfText(layout, SourceText(k)))

\* C17 (as stated): a source date written day-month-year with a 2-digit year
\* is turned into YYYY-MM-DD, and the order of the strings is the order of
\* the dates.
C17_NormalizesDayMonthYear == NormalizesLayout("dmy2")

\* C17 (amended): a source date written month/day/year with a 4-digit year
\* (MM/DD/YYYY) is turned into YYYY-MM-DD, and for any two records the order
\* of the normalized strings is the order of the dates.
C17_NormalizesMonthDayYear == NormalizesLayout("mdy4")

C17_Witness ==
  /\ pc = "clean_returned"
  /\ InLayout("mdy4", SourceText(1))
  /\ DateOfText("mdy4", SourceText(1))[2] < DateOfText("mdy4", SourceText(2))[2]
  /\ DateOfText("mdy4", SourceText(1))[3] > DateOfText("mdy4", SourceText(2))[3]
  /\ StrGreater(history[2][2], history[1][2])

\* the requests made so far for the list of one type of one user without
\* overwrite
PlainRequests(reqs, u, ltype) ==
  { k \in 1..Len(reqs) :
      reqs[k].user = u /\ reqs[k].ltype = ltype /\ ~reqs[k].overwrite }

\* a step never drops or replaces a user; an attribute of a user changes
\* only by a request for that user and that list type, to which the List
\* Provider gave a list; a running date_fixer requests nothing more, changes
\* no attribute and keeps working on the list it was given, which is the
\* cached one
CacheKept ==
  /\ \A u \in DOMAIN user_lists : u \in DOMAIN user_lists'
  /\ \A u \in DOMAIN user_lists', ltype \in ListTypes :
       user_lists'[u][ltype] # AddUser(user_lists, u)[u][ltype] =>
         /\ Len(list_requests') = Len(list_requests) + 1
         /\ Last(list_requests').user = u
         /\ Last(list_requests').ltype = ltype
         /\ Last(list_requests').ok
  /\ pc # "start" => UNCHANGED << user_lists, list_requests >>
  /\ (pc # "start" /\ pc' # "start") => user_list' = user_list
  /\ (pc = "start" /\ pc' = "loop") =>
       \E ltype \in ListTypes :
         /\ user_lists'["@me"][ltype].has
         /\ user_list' = user_lists'["@me"][ltype].data

\* C15 (as stated): the list of one type of one user is requested at most
\* once unless overwrite is given; users are never replaced, the two list
\* types are apart, date_fixer leaves the cached list as it is.
C15_RequestedAtMostOnce ==
  [][ /\ \A u \in Users, ltype \in ListTypes :
           Cardinality(PlainRequests(list_requests', u, ltype)) <= 1
      /\ CacheKept ]_vars

\* C15 (amended): a list is requested, without overwrite, only while the
\* user has no list of that type yet: once the List Provider has given one,
\* it is never requested again unless overwrite is given (a request that
\* failed stored nothing, so the next call requests again); users are never
\* replaced, the two list types are apart, date_fixer leaves the cached list
\* as it is.
C15_RequestedOnlyWhenMissing ==
  [][ /\ list_requests' # list_requests =>
           /\ Len(list_requests') = Len(list_requests) + 1
           /\ SubSeq(list_requests', 1, Len(list_requests)) = list_requests
           /\ LET r == Last(list_requests')
              IN  \/ r.overwrite
                  \/ r.user \notin DOMAIN user_lists
                  \/ ~user_lists[r.user][r.ltype].has
      /\ CacheKept ]_vars

C15_Witness ==
  /\ pc = "prompt"
  /\ list_calls = MaxCalls
  /\ Len(list_requests) = 1
  /\ list_requests[1].ok
  /\ user_list = user_lists["@me"]["anime"].data
  /\ ~user_lists["@me"]["manga"].has

====
